---- MODULE Spec2Model ----
(***************************************************************************)
(* Levery market simulation: the oracle round history build with its       *)
(* bounded retry and its rounds.json cache, the cursor pagination of the   *)
(* swap subgraph, the per-swap match against the Chainlink rounds, the fee *)
(* and efficiency arithmetic and the report that main() writes.            *)
(***************************************************************************)
EXTENDS Integers, Sequences, FiniteSets, TLC

(***************************************************************************)
(* Program constants.                                                      *)
(***************************************************************************)
MAX_RETRIES == 5
LP_FEE_MULTIPLIER == 70
ExtraRounds == 5

(***************************************************************************)
(* Bounds of the model.                                                    *)
(***************************************************************************)
\* Largest latestRound() a feed of the model answers.
MaxLatest == 6
\* Largest latestRound() of the feeds whose timestamps are in no order.
MaxArbLatest == 2
\* Largest round or swap timestamp, in seconds.
MaxTs == 3
\* The `first:` argument of poolQuery and the page length fetchSwaps tests for.
PageSize == 2
\* Largest number of swaps the subgraph holds.
MaxSwaps == 3
\* Number of runs of main() against the same rounds.json.
MaxRuns == 2
\* The look-back window in milliseconds, which DAYS_NUMBER_TO_COMPARE makes
\* ninety days.
WindowMs == 1500

(***************************************************************************)
(* JavaScript numbers.  A value is a record [k, n, d]: k = "num" is the    *)
(* rational n/d in lowest terms with d > 0, k = "nan" is NaN, k = "inf" is *)
(* Infinity with sign n, k = "str" is the string "N/A" and k = "null" is   *)
(* what JSON.stringify writes for a number that is not finite.             *)
(***************************************************************************)
Abs(x) == IF x < 0 THEN -x ELSE x

RECURSIVE GCD(_, _)
GCD(a, b) == IF b = 0 THEN a ELSE GCD(b, a % b)

Num(n, d) ==
  LET s == IF d < 0 THEN -1 ELSE 1
      g == GCD(Abs(n), Abs(d))
  IN  IF n = 0 THEN [k |-> "num", n |-> 0, d |-> 1]
      ELSE [k |-> "num", n |-> (s * n) \div g, d |-> Abs(d) \div g]

IntNum(n) == Num(n, 1)
NaN == [k |-> "nan", n |-> 0, d |-> 1]
Inf(s) == [k |-> "inf", n |-> s, d |-> 1]
NA == [k |-> "str", n |-> 0, d |-> 1]
Null == [k |-> "null", n |-> 0, d |-> 1]
\* A key the object does not have.
Undefined == [k |-> "undefined", n |-> 0, d |-> 1]

Sign(x) == IF x.n > 0 THEN 1 ELSE IF x.n < 0 THEN -1 ELSE 0

\* ToNumber: the string "N/A" converts to NaN.
ToNumber(x) == IF x.k = "str" THEN NaN ELSE x

JNeg(a) ==
  LET x == ToNumber(a)
  IN  CASE x.k = "nan" -> NaN
        [] x.k = "inf" -> Inf(-x.n)
        [] OTHER -> Num(-x.n, x.d)

JAbs(a) ==
  LET x == ToNumber(a)
  IN  CASE x.k = "nan" -> NaN
        [] x.k = "inf" -> Inf(1)
        [] OTHER -> Num(Abs(x.n), x.d)

JAdd(a, b) ==
  LET x == ToNumber(a)
      y == ToNumber(b)
  IN  CASE x.k = "nan" \/ y.k = "nan" -> NaN
        [] x.k = "inf" /\ y.k = "inf" -> IF x.n = y.n THEN x ELSE NaN
        [] x.k = "inf" -> x
        [] y.k = "inf" -> y
        [] OTHER -> Num(x.n * y.d + y.n * x.d, x.d * y.d)

JSub(a, b) == JAdd(a, JNeg(b))

JMul(a, b) ==
  LET x == ToNumber(a)
      y == ToNumber(b)
  IN  CASE x.k = "nan" \/ y.k = "nan" -> NaN
        [] x.k = "inf" \/ y.k = "inf" ->
             IF Sign(x) * Sign(y) = 0 THEN NaN ELSE Inf(Sign(x) * Sign(y))
        [] OTHER -> Num(x.n * y.n, x.d * y.d)

JDiv(a, b) ==
  LET x == ToNumber(a)
      y == ToNumber(b)
  IN  CASE x.k = "nan" \/ y.k = "nan" -> NaN
        [] x.k = "inf" /\ y.k = "inf" -> NaN
        [] x.k = "inf" -> Inf(IF Sign(y) < 0 THEN -x.n ELSE x.n)
        [] y.k = "inf" -> IntNum(0)
        [] y.n = 0 -> IF x.n = 0 THEN NaN ELSE Inf(Sign(x))
        [] OTHER -> Num(x.n * y.d, x.d * y.n)

\* a < b and a > b on numbers: false as soon as one side is NaN.
JLt(a, b) ==
  LET x == ToNumber(a)
      y == ToNumber(b)
  IN  CASE x.k = "nan" \/ y.k = "nan" -> FALSE
        [] x.k = "inf" /\ y.k = "inf" -> x.n < y.n
        [] x.k = "inf" -> x.n < 0
        [] y.k = "inf" -> y.n > 0
        [] OTHER -> x.n * y.d < y.n * x.d

JGt(a, b) == JLt(b, a)

IsFinite(x) == x.k = "num"

\* JSON.stringify of a number or string field.
JsonValue(x) == IF x.k \in {"nan", "inf"} THEN Null ELSE x

(***************************************************************************)
(* Decimal strings: BigNumber.toString() and parseInt().  A string is the  *)
(* sequence of its decimal digits.                                         *)
(***************************************************************************)
RECURSIVE ToStr(_)
ToStr(n) == IF n < 10 THEN <<n>> ELSE Append(ToStr(n \div 10), n % 10)

RECURSIVE ParseInt(_)
ParseInt(s) ==
  IF Len(s) = 0 THEN 0
  ELSE 10 * ParseInt(SubSeq(s, 1, Len(s) - 1)) + s[Len(s)]

RECURSIVE Pow10(_)
Pow10(e) == IF e = 0 THEN 1 ELSE 10 * Pow10(e - 1)

\* parseFloat(ethers.utils.formatUnits(answer, decimals))
FormatUnits(answer, decimals) == Num(answer, Pow10(decimals))

(***************************************************************************)
(* The state.  The first group is the world outside the process, the       *)
(* second the variables of main(), fetchHistoricalChainlinkPrices(),       *)
(* fetchRoundDataWithRetry() and fetchSwaps(), the third records what the  *)
(* run asked of the outside world.                                         *)
(***************************************************************************)
VARIABLES
  feed,        \* the price feed: [known, latest, ts, answer, decimals]
  subgraph,    \* the swaps the subgraph holds, once the run has queried it
  roundsFile,  \* rounds.json: [exists, data]
  output,      \* the report file of this run: [written, data]
  pc,          \* what main() is awaiting
  run,         \* number of runs of main() started
  now,         \* Date.now() of this run, in milliseconds
  daysAgo,     \* subDays(new Date(), DAYS_NUMBER_TO_COMPARE).getTime()
  prices,      \* prices of fetchHistoricalChainlinkPrices
  roundId,
  roundData,   \* [updatedAt, answer] of the last round fetched
  i,           \* counter of the extra-rounds loop
  site,        \* which call of fetchRoundDataWithRetry or decimals() is open
  attempt,     \* attempt of fetchRoundDataWithRetry
  allSwaps,
  lastId,
  resultData,
  errorMsg,    \* the message main() logs in its catch clause
  requested,   \* round identifiers passed to getRoundData in this run
  tries,       \* getRoundData calls made by the open fetchRoundDataWithRetry
  waits,       \* retry delays slept by the open fetchRoundDataWithRetry
  fault,       \* the error of the attempt that failed last
  pages,       \* page requests posted by this run
  response,    \* the last answer to a page request: [got, pool, swaps]
  armed        \* a timer is armed whose race the fetch has settled

vars == <<feed, subgraph, roundsFile, output, pc, run, now, daysAgo, prices,
          roundId, roundData, i, site, attempt, allSwaps, lastId, resultData,
          errorMsg, requested, tries, waits, fault, pages, response, armed>>

(***************************************************************************)
(* The inputs the model draws from.                                        *)
(***************************************************************************)
Timestamps == 0..MaxTs

NonDecreasing(f, L) == \A r \in 1..L : f[r - 1] <= f[r]

\* Raw answers of the feed; with one decimal they are the prices 0 and 3.
Answers == {0, 30}

\* A feed whose latest round is the first one that leaves room for the
\* extra rounds.  These feeds have one timestamp for the latest round and one
\* for all the rounds below it, in any order of the two, and either answer;
\* the runs against them draw the wider swap sets.
ShortFeed(L) == L = ExtraRounds

\* The timestamps of the other feeds never decrease with the round, or are
\* arbitrary when the feed has at most MaxArbLatest + 1 rounds.
TimestampsOf(L) ==
  IF ShortFeed(L)
  THEN { [r \in 0..L |-> IF r = L THEN t ELSE c] : t \in Timestamps, c \in Timestamps }
  ELSE { g \in [0..L -> Timestamps] : NonDecreasing(g, L) \/ L <= MaxArbLatest }

FeedsOf(L) ==
  { [known |-> TRUE, latest |-> L, ts |-> f, answer |-> a, decimals |-> 1] :
      f \in TimestampsOf(L), a \in IF ShortFeed(L) THEN Answers ELSE {30} }

Feeds == UNION { FeedsOf(L) : L \in 0..MaxLatest }

\* Feeds with a round every two seconds, so that a swap fits between two
\* rounds; latestRound() is MaxLatest or, before the last round was
\* published, MaxLatest - 1.
SparseFeeds ==
  { [known |-> TRUE, latest |-> L, ts |-> [r \in 0..MaxLatest |-> 2 * r],
     answer |-> 30, decimals |-> 1] : L \in (MaxLatest - 1)..MaxLatest }

\* The feed a later run finds: the same, or with the round published since.
Grown(fd) ==
  IF fd \in SparseFeeds /\ fd.latest < MaxLatest
  THEN {fd, [fd EXCEPT !.latest = @ + 1]}
  ELSE {fd}

NoFeed ==
  [known |-> FALSE, latest |-> 0, ts |-> [r \in 0..0 |-> 0], answer |-> 0, decimals |-> 0]

\* (amount0, amount1): USDC paid for ETH at price 2, ETH paid for USDC at price 3.
Buy == <<-4, 2>>
Sell == <<6, -2>>
\* ETH paid for no USDC.
SellForNothing == <<0, -2>>

Swap(id, t, am) == [id |-> id, timestamp |-> t, amount0 |-> am[1], amount1 |-> am[2]]

\* Swap identifiers are opaque strings; the model keeps their order only:
\* identifier k stands for the k-th smallest string and 0 for "".
SwapSets(n, amounts) ==
  UNION { { { Swap(id, t[id], am[id]) : id \in 1..m } :
              t \in [1..m -> Timestamps], am \in [1..m -> amounts] } : m \in 0..n }

DistinctTimestamps(S) == \A s, t \in S : s.timestamp = t.timestamp => s = t

\* Against a short feed: up to MaxSwaps swaps of one direction at distinct
\* timestamps, or up to two swaps of any direction and timestamp.  Against
\* the other feeds: at most one swap.
SwapSetsFor(fd) ==
  IF fd \in SparseFeeds
  THEN { {} } \cup { { Swap(1, t, am) } : t \in (2 * MaxLatest - 2)..(2 * MaxLatest),
                                           am \in {Buy, Sell, SellForNothing} }
  ELSE IF ShortFeed(fd.latest)
  THEN { S \in SwapSets(MaxSwaps, {Buy}) : DistinctTimestamps(S) }
         \cup SwapSets(2, {Buy, Sell})
  ELSE SwapSets(1, {Buy})

\* Date.now() of a run: half a second after the timestamp MaxTs - 1, or
\* half a second after the last round of the sparse feeds.
EarlyNow == 1000 * (MaxTs - 1) + 500
LateNow == 2000 * MaxLatest + 500
Nows == { EarlyNow, LateNow }

\* The feeds a run started at time n can find.
FeedsAt(n) == IF n = LateNow THEN SparseFeeds ELSE Feeds

RoundErrors == { "Timeout", "call revert exception" }

NoData == [updatedAt |-> 0, answer |-> 0]

EmptyResult ==
  [ totalSwaps |-> 0, totalVolumeETH |-> IntNum(0), totalVolumeUSDC |-> IntNum(0),
    totalStandardFee |-> IntNum(0), totalDynamicLeveryFee |-> IntNum(0),
    averageLeveryEfficiencyPercent |-> IntNum(0), swaps |-> <<>> ]

NoFile == [exists |-> FALSE, data |-> <<>>]
NoResponse == [got |-> FALSE, pool |-> FALSE, swaps |-> <<>>]
NoOutput == [written |-> FALSE, data |-> EmptyResult]

Init ==
  /\ feed = NoFeed
  /\ subgraph = {}
  /\ roundsFile = NoFile
  /\ output = NoOutput
  /\ pc = "idle"
  /\ run = 0
  /\ now = 0
  /\ daysAgo = 0
  /\ prices = <<>>
  /\ roundId = 0
  /\ roundData = NoData
  /\ i = 0
  /\ site = "none"
  /\ attempt = 0
  /\ allSwaps = <<>>
  /\ lastId = 0
  /\ resultData = EmptyResult
  /\ errorMsg = ""
  /\ requested = {}
  /\ tries = 0
  /\ waits = 0
  /\ fault = "none"
  /\ pages = 0
  /\ response = NoResponse
  /\ armed = FALSE

(***************************************************************************)
(* fetchHistoricalChainlinkPrices and fetchRoundDataWithRetry.             *)
(***************************************************************************)
\* The walk bounded by the end of the window instead of its start.
WalkConditionEnd(rd, rid, startMs) == rd.updatedAt * 1000 > now /\ rid > 0

\* while (roundData.updatedAt > startTime && roundId.gt(0)), with
\* startTime = daysAgo / 1000.
WalkCondition(rd, rid, startMs) == rd.updatedAt * 1000 > startMs /\ rid > 0

\* roundData.updatedAt <= endTime, with endTime = now / 1000.
WithinEnd(rd, endMs) == rd.updatedAt * 1000 <= endMs

\* prices.find((p) => p.roundId === roundId.toString())
Cached(ps, rid) == \E j \in 1..Len(ps) : ps[j].roundId = ToStr(rid)

\* The object pushed on prices.
Observation(rid, rd, decimals) ==
  [ roundId |-> ToStr(rid), timestamp |-> ToStr(rd.updatedAt),
    price |-> FormatUnits(rd.answer, decimals) ]

\* The catch clause giving up one attempt early.
CanRetryEarly(a) == a < MAX_RETRIES - 1

\* if (attempt < MAX_RETRIES) of the catch clause.
CanRetry(a) == a < MAX_RETRIES

\* throw error: the error the catch clause caught.
Thrown(caught) == caught

\* Only the observations pushed by this run are written.
JsonPricesNewOnly(ps) ==
  [ j \in 1..(Len(ps) - Len(roundsFile.data)) |->
      [ps[j + Len(roundsFile.data)] EXCEPT !.price = JsonValue(@)] ]

\* JSON.stringify(prices) written to rounds.json and parsed back.
JsonPrices(ps) == [ j \in 1..Len(ps) |-> [ps[j] EXCEPT !.price = JsonValue(@)] ]

\* What getRoundData(rid) resolves to.
RoundDataOf(rid) == [updatedAt |-> feed.ts[rid], answer |-> feed.answer]

\* The errors one attempt for rid can end with: the 30 s timer or a rejected
\* call for a round of the feed; the uint80 encoder rejects a negative
\* identifier before anything is sent.
AttemptErrors(rid) == IF rid < 0 THEN {"value out-of-bounds"} ELSE RoundErrors

\* Promise.race of one attempt is settled by outcome: the fetch resolving
\* ("none"), the fetch rejecting, or the timer ("Timeout").  The timer is not
\* cleared, so it stays armed unless it is what settled the race.
Raced(outcome) == armed' = (armed \/ outcome # "Timeout")

\* fetchRoundDataWithRetry(priceFeed, rid, log) entered from call site st.
CallRound(rid, st) ==
  /\ roundId' = rid
  /\ site' = st
  /\ attempt' = 1
  /\ tries' = 1
  /\ waits' = 0
  /\ fault' = "none"
  /\ requested' = requested \cup {rid}
  /\ pc' = "getRoundData"

\* fetchRoundDataWithRetry returns: its attempt counter is gone.
Returned ==
  /\ attempt' = 0
  /\ tries' = 0
  /\ waits' = 0

\* A catch clause around the oracle build alone: the error is logged and
\* main() goes on to the swaps.
AbortSwallowed(msg) ==
  /\ pc' = "post"
  /\ errorMsg' = msg

\* The catch clause of main().
Abort(msg) ==
  /\ pc' = "aborted"
  /\ errorMsg' = msg

\* main() up to the first await: the clock, resultData, the cache load.
Begin ==
  /\ pc \in {"idle", "done", "aborted"}
  /\ run < MaxRuns
  /\ \E t \in Nows :
       /\ t >= now
       /\ feed.known => t = now
       /\ now' = t
       /\ daysAgo' = t - WindowMs
  /\ run' = run + 1
  /\ resultData' = EmptyResult
  /\ output' = NoOutput
  /\ errorMsg' = ""
  /\ prices' = IF roundsFile.exists THEN roundsFile.data ELSE <<>>
  /\ pc' = "latestRound"
  /\ subgraph' = {}
  /\ allSwaps' = <<>>
  /\ lastId' = 0
  /\ roundId' = 0
  /\ roundData' = NoData
  /\ i' = 0
  /\ site' = "none"
  /\ attempt' = 0
  /\ requested' = {}
  /\ tries' = 0
  /\ waits' = 0
  /\ fault' = "none"
  /\ pages' = 0
  /\ response' = NoResponse
  /\ armed' = FALSE
  /\ UNCHANGED <<feed, roundsFile>>

\* latestRound() resolves: the first getRoundData is issued.
LatestRoundOk ==
  /\ pc = "latestRound"
  /\ \E fd \in IF feed.known THEN Grown(feed) ELSE FeedsAt(now) :
       /\ feed' = fd
       /\ CallRound(fd.latest, "first")
  /\ UNCHANGED <<subgraph, roundsFile, output, run, now, daysAgo, prices,
                 roundData, i, allSwaps, lastId, resultData, errorMsg, pages, response, armed>>

\* latestRound() rejects: nothing wraps it, main() catches.
LatestRoundFail ==
  /\ pc = "latestRound"
  /\ Abort("latestRound failed")
  /\ UNCHANGED <<feed, subgraph, roundsFile, output, run, now, daysAgo, prices,
                 roundId, roundData, i, site, attempt, allSwaps, lastId,
                 resultData, requested, tries, waits, fault, pages, response, armed>>

\* A round of the walk is within the window and not in prices: decimals()
\* is awaited for the object to push.
RoundOkWalkPush ==
  /\ pc = "getRoundData"
  /\ site \in {"first", "walk"}
  /\ roundId >= 0
  /\ LET rd == RoundDataOf(roundId)
     IN  /\ WalkCondition(rd, roundId, daysAgo)
         /\ WithinEnd(rd, now) /\ ~Cached(prices, roundId)
         /\ roundData' = rd
  /\ Returned
  /\ pc' = "decimals"
  /\ site' = "walk"
  /\ Raced("none")
  /\ UNCHANGED <<feed, subgraph, roundsFile, output, run, now, daysAgo, prices,
                 roundId, i, allSwaps, lastId, resultData, errorMsg,
                 requested, fault, pages, response>>

\* A round of the walk is after the window or already in prices.
RoundOkWalkSkip ==
  /\ pc = "getRoundData"
  /\ site \in {"first", "walk"}
  /\ roundId >= 0
  /\ LET rd == RoundDataOf(roundId)
     IN  /\ WalkCondition(rd, roundId, daysAgo)
         /\ ~(WithinEnd(rd, now) /\ ~Cached(prices, roundId))
         /\ roundData' = rd
  /\ CallRound(roundId - 1, "walk")
  /\ Raced("none")
  /\ UNCHANGED <<feed, subgraph, roundsFile, output, run, now, daysAgo, prices,
                 i, allSwaps, lastId, resultData, errorMsg, pages, response>>

\* The walk ends: the first extra round is fetched.
RoundOkWalkExit ==
  /\ pc = "getRoundData"
  /\ site \in {"first", "walk"}
  /\ roundId >= 0
  /\ LET rd == RoundDataOf(roundId)
     IN  /\ ~WalkCondition(rd, roundId, daysAgo)
         /\ roundData' = rd
  /\ i' = 0
  /\ CallRound(roundId - 1, "margin")
  /\ Raced("none")
  /\ UNCHANGED <<feed, subgraph, roundsFile, output, run, now, daysAgo, prices,
                 allSwaps, lastId, resultData, errorMsg, pages, response>>

\* An extra round resolves: decimals() is awaited for the object to push.
RoundOkExtra ==
  /\ pc = "getRoundData"
  /\ site = "margin"
  /\ roundId >= 0
  /\ roundData' = RoundDataOf(roundId)
  /\ Returned
  /\ pc' = "decimals"
  /\ Raced("none")
  /\ UNCHANGED <<feed, subgraph, roundsFile, output, run, now, daysAgo, prices,
                 roundId, i, site, allSwaps, lastId, resultData,
                 errorMsg, requested, fault, pages, response>>

\* An attempt fails and another one is left: the delay is awaited.
RoundFailRetry ==
  /\ pc = "getRoundData"
  /\ CanRetry(attempt)
  /\ \E e \in AttemptErrors(roundId) :
       /\ fault' = e
       /\ Raced(e)
  /\ pc' = "retryDelay"
  /\ UNCHANGED <<feed, subgraph, roundsFile, output, run, now, daysAgo, prices,
                 roundId, roundData, i, site, attempt, allSwaps, lastId,
                 resultData, errorMsg, requested, tries, waits, pages, response>>

\* The last attempt fails: the error is thrown and main() catches it.
RoundFailThrow ==
  /\ pc = "getRoundData"
  /\ ~CanRetry(attempt)
  /\ \E e \in AttemptErrors(roundId) :
       /\ fault' = e
       /\ Raced(e)
       /\ Abort(Thrown(e))
  /\ UNCHANGED <<feed, subgraph, roundsFile, output, run, now, daysAgo, prices,
                 roundId, roundData, i, site, attempt, allSwaps, lastId,
                 resultData, requested, tries, waits, pages, response>>

\* The delay is over: the next attempt.
RetryDelay ==
  /\ pc = "retryDelay"
  /\ attempt' = attempt + 1
  /\ tries' = tries + 1
  /\ waits' = waits + 1
  /\ fault' = "none"
  /\ pc' = "getRoundData"
  /\ UNCHANGED <<feed, subgraph, roundsFile, output, run, now, daysAgo, prices,
                 roundId, roundData, i, site, allSwaps, lastId, resultData,
                 errorMsg, requested, pages, response, armed>>

\* decimals() resolves in the walk: push, then the previous round.
DecimalsOkWalk ==
  /\ pc = "decimals"
  /\ site = "walk"
  /\ prices' = Append(prices, Observation(roundId, roundData, feed.decimals))
  /\ CallRound(roundId - 1, "walk")
  /\ UNCHANGED <<feed, subgraph, roundsFile, output, run, now, daysAgo,
                 roundData, i, allSwaps, lastId, resultData, errorMsg, pages, response, armed>>

\* decimals() resolves in the extra-rounds loop and rounds are left.
DecimalsOkExtra ==
  /\ pc = "decimals"
  /\ site = "margin"
  /\ i + 1 < ExtraRounds
  /\ prices' = Append(prices, Observation(roundId, roundData, feed.decimals))
  /\ i' = i + 1
  /\ CallRound(roundId - 1, "margin")
  /\ UNCHANGED <<feed, subgraph, roundsFile, output, run, now, daysAgo,
                 roundData, allSwaps, lastId, resultData, errorMsg, pages, response, armed>>

\* decimals() rejects: nothing wraps it, main() catches.
DecimalsFail ==
  /\ pc = "decimals"
  /\ Abort("decimals failed")
  /\ UNCHANGED <<feed, subgraph, roundsFile, output, run, now, daysAgo, prices,
                 roundId, roundData, i, site, attempt, allSwaps, lastId,
                 resultData, requested, tries, waits, fault, pages, response, armed>>

(***************************************************************************)
(* fetchSwaps: the subgraph's answer to poolQuery and the cursor loop.     *)
(***************************************************************************)
\* where: { timestamp_gte: $timestamp, id_gt: $lastId }, with
\* $timestamp = Math.floor(startTime / 1000).
Eligible(S, startMs, cursor) ==
  { s \in S : s.timestamp >= startMs \div 1000 /\ s.id > cursor }

\* orderBy: timestamp, orderDirection: desc, first: PageSize.  Swaps of equal
\* timestamp come in any order.
PagesOf(S, startMs, cursor) ==
  LET E == Eligible(S, startMs, cursor)
      n == IF Cardinality(E) < PageSize THEN Cardinality(E) ELSE PageSize
  IN  { p \in [1..n -> E] :
          /\ \A a, b \in 1..n : a < b => p[a].id # p[b].id
          /\ \A a, b \in 1..n : a < b => p[a].timestamp >= p[b].timestamp
          /\ \A s \in E : (\A a \in 1..n : p[a].id # s.id) =>
                             \A a \in 1..n : s.timestamp <= p[a].timestamp }

\* response.data.data of one request: the pool with a page of its swaps, or
\* no pool.
Responses(S, startMs, cursor) ==
  { [got |-> TRUE, pool |-> TRUE, swaps |-> p] : p \in PagesOf(S, startMs, cursor) }
    \cup { [got |-> TRUE, pool |-> FALSE, swaps |-> <<>>] }

\* A pool without swaps taken for no pool.
PoolMissingOrEmpty(resp) == ~resp.pool \/ Len(resp.swaps) = 0

\* if (!pool)
PoolMissing(resp) == ~resp.pool

\* if (swaps.length < 1000) hasMore = false
LastPage(p) == Len(p) < PageSize

\* lastId = swaps[swaps.length - 1].id
NextCursor(p) == p[Len(p)].id

(***************************************************************************)
(* The body of the loop over the swaps in main().                          *)
(***************************************************************************)
\* The filter with a strict comparison.
MatchFilterStrict(ps, t) ==
  SelectSeq(ps, LAMBDA p : ParseInt(p.timestamp) < t)

\* chainlinkPrices.filter((p) => parseInt(p.timestamp) <= swap.timestamp)
MatchFilter(ps, t) ==
  SelectSeq(ps, LAMBDA p : ParseInt(p.timestamp) <= t)

\* Array.prototype.sort with (a, b) => parseInt(b.timestamp) -
\* parseInt(a.timestamp): stable, descending by timestamp.
RECURSIVE InsertDesc(_, _)
InsertDesc(x, sorted) ==
  IF Len(sorted) = 0 THEN <<x>>
  ELSE IF ParseInt(Head(sorted).timestamp) - ParseInt(x.timestamp) >= 0
       THEN <<Head(sorted)>> \o InsertDesc(x, Tail(sorted))
       ELSE <<x>> \o sorted

RECURSIVE SortDesc(_)
SortDesc(fs) ==
  IF Len(fs) = 0 THEN <<>>
  ELSE InsertDesc(fs[Len(fs)], SortDesc(SubSeq(fs, 1, Len(fs) - 1)))

\* [0] of the sorted array: a sequence of length 0 (undefined) or 1.
FirstOfSorted(fs) == IF Len(fs) = 0 THEN <<>> ELSE <<SortDesc(fs)[1]>>

ChainlinkPriceData(ps, swap) == FirstOfSorted(MatchFilter(ps, swap.timestamp))

\* A swap of no USDC counted as a buy.
IsBuyingETHOrNothing(amount0) == amount0 <= 0

\* if (amount0 < 0) { ... isBuyingETH = true } else { ... isSellingETH = true }
IsBuyingETH(amount0) == amount0 < 0

SwapPrice(amount0, amount1) ==
  IF amount0 < 0 THEN JDiv(IntNum(-amount0), IntNum(amount1))
  ELSE JDiv(IntNum(amount0), IntNum(-amount1))

BaseFeePercent == Num(5, 100)

\* The deviation added to the base fee with its sign.
DynamicLeveryFeePercentSigned(price, chainlinkPrice) ==
  IF chainlinkPrice # NA
  THEN LET diff == JMul(JDiv(JSub(price, chainlinkPrice), chainlinkPrice),
                        IntNum(100))
       IN  JAdd(BaseFeePercent,
                JDiv(JMul(diff, IntNum(LP_FEE_MULTIPLIER)), IntNum(100)))
  ELSE BaseFeePercent

\* let dynamicLeveryFeePercent = 0.05; if (chainlinkPrice !== "N/A") { ... }
DynamicLeveryFeePercent(price, chainlinkPrice) ==
  IF chainlinkPrice # NA
  THEN LET diff == JAbs(JMul(JDiv(JSub(price, chainlinkPrice), chainlinkPrice),
                             IntNum(100)))
       IN  JAdd(BaseFeePercent,
                JDiv(JMul(diff, IntNum(LP_FEE_MULTIPLIER)), IntNum(100)))
  ELSE BaseFeePercent

\* dynamicLeveryFeePercent of app.js: nine tenths of the deviation, added
\* when the swap buys ETH below the oracle price or sells it above.
AppDynamicLeveryFeePercent(price, chainlinkPrice, buying) ==
  IF chainlinkPrice # NA
  THEN LET diff == JAbs(JMul(JDiv(JSub(price, chainlinkPrice), chainlinkPrice),
                             IntNum(100)))
           more == JAdd(BaseFeePercent, JMul(Num(9, 10), diff))
       IN  IF JGt(chainlinkPrice, price) /\ buying THEN more
           ELSE IF JLt(chainlinkPrice, price) /\ ~buying THEN more
           ELSE BaseFeePercent
  ELSE BaseFeePercent

\* ((price - chainlinkPrice) / chainlinkPrice) * 100 of swapData
PriceDifferencePercent(price, chainlinkPrice) ==
  JMul(JDiv(JSub(price, chainlinkPrice), chainlinkPrice), IntNum(100))

\* leveryEfficiencyPercent
LeveryEfficiencyPercent(buying, chainlinkPrice, plusFee, minusFee) ==
  IF buying
  THEN JMul(JDiv(JSub(chainlinkPrice, plusFee), chainlinkPrice), IntNum(100))
  ELSE JMul(JDiv(JSub(minusFee, chainlinkPrice), chainlinkPrice), IntNum(100))

\* swapData of one swap.
SwapData(swap, ps) ==
  LET amount0 == swap.amount0
      amount1 == swap.amount1
      buying == IsBuyingETH(amount0)
      price == SwapPrice(amount0, amount1)
      data == ChainlinkPriceData(ps, swap)
      found == Len(data) > 0
      chainlinkPrice == IF found THEN data[1].price ELSE NA
      dyn == DynamicLeveryFeePercent(price, chainlinkPrice)
      share == JDiv(JMul(price, dyn), IntNum(100))
      plusFee == JAdd(price, share)
      minusFee == JSub(price, share)
      swapAmount == IF Abs(amount0) > Abs(amount1) THEN Abs(amount0) ELSE Abs(amount1)
  IN  [ transactionHash |-> swap.id,
        swapTimestamp |-> swap.timestamp * 1000,
        amount0 |-> IntNum(amount0),
        amount1 |-> IntNum(amount1),
        price |-> price,
        isBuyingETH |-> buying,
        isSellingETH |-> ~buying,
        chainlinkPrice |-> chainlinkPrice,
        chainlinkTimestamp |->
          IF found THEN IntNum(ParseInt(data[1].timestamp) * 1000) ELSE NA,
        timeDifference |->
          IF found THEN IntNum(Abs(swap.timestamp - ParseInt(data[1].timestamp)))
          ELSE NA,
        priceDifferencePercent |-> PriceDifferencePercent(price, chainlinkPrice),
        dynamicLeveryFeePercent |-> dyn,
        standardFee |-> JDiv(JMul(IntNum(swapAmount), BaseFeePercent), IntNum(100)),
        dynamicLeveryFee |-> JDiv(JMul(IntNum(swapAmount), dyn), IntNum(100)),
        leveryEfficiencyPercent |->
          LeveryEfficiencyPercent(buying, chainlinkPrice, plusFee, minusFee),
        leveryHookPricePlusFee |-> IF buying THEN plusFee ELSE Undefined,
        leveryHookPriceMinusFee |-> IF buying THEN Undefined ELSE minusFee ]

\* One pass of the loop: resultData and the three running totals.
Step(acc, swap, ps) ==
  LET d == SwapData(swap, ps)
      buying == IsBuyingETH(swap.amount0)
      eth == IF buying THEN IntNum(swap.amount1) ELSE IntNum(-swap.amount1)
      usdc == IF buying THEN IntNum(-swap.amount0) ELSE IntNum(swap.amount0)
  IN  [ totalSwaps |-> acc.totalSwaps + 1,
        totalVolumeETH |-> JAdd(acc.totalVolumeETH, eth),
        totalVolumeUSDC |-> JAdd(acc.totalVolumeUSDC, usdc),
        totalStandardFee |-> JAdd(acc.totalStandardFee, d.standardFee),
        totalDynamicLeveryFee |-> JAdd(acc.totalDynamicLeveryFee, d.dynamicLeveryFee),
        averageLeveryEfficiencyPercent |->
          JAdd(acc.averageLeveryEfficiencyPercent, d.leveryEfficiencyPercent),
        swaps |-> Append(acc.swaps, d) ]

\* The loop; averageLeveryEfficiencyPercent carries totalLeveryEfficiencyPercent
\* until the division after the loop.
RECURSIVE Loop(_, _, _)
Loop(acc, swaps, ps) ==
  IF Len(swaps) = 0 THEN acc
  ELSE Loop(Step(acc, Head(swaps), ps), Tail(swaps), ps)

\* The total divided by one more than the count.
AverageEfficiencyOffByOne(total, count) == JDiv(total, IntNum(count + 1))

\* totalLeveryEfficiencyPercent / resultData.totalSwaps
AverageEfficiency(total, count) == JDiv(total, IntNum(count))

\* resultData after the loop and the three assignments that follow it.
Processed(swaps, ps) ==
  LET acc == Loop(EmptyResult, swaps, ps)
  IN  [acc EXCEPT !.averageLeveryEfficiencyPercent =
                     AverageEfficiency(@, acc.totalSwaps)]

\* JSON.stringify(resultData, null, 2): a number that is not finite is
\* written as null, an undefined key is left out.
JsonSwap(d) ==
  [ d EXCEPT !.price = JsonValue(@),
             !.priceDifferencePercent = JsonValue(@),
             !.dynamicLeveryFeePercent = JsonValue(@),
             !.standardFee = JsonValue(@),
             !.dynamicLeveryFee = JsonValue(@),
             !.leveryEfficiencyPercent = JsonValue(@),
             !.leveryHookPricePlusFee = JsonValue(@),
             !.leveryHookPriceMinusFee = JsonValue(@) ]

JsonResult(r) ==
  [ r EXCEPT !.totalStandardFee = JsonValue(@),
             !.totalDynamicLeveryFee = JsonValue(@),
             !.averageLeveryEfficiencyPercent = JsonValue(@),
             !.swaps = [ j \in 1..Len(r.swaps) |-> JsonSwap(r.swaps[j]) ] ]

\* The rest of main() once the last page has come: the loop, the totals, the
\* report file.
Finish(swaps) ==
  /\ resultData' = Processed(swaps, prices)
  /\ output' = [written |-> TRUE, data |-> JsonResult(Processed(swaps, prices))]
  /\ pc' = "done"

\* decimals() resolves for the last extra round: rounds.json is written,
\* prices returned and the first page of swaps requested.
DecimalsOkLast ==
  /\ pc = "decimals"
  /\ site = "margin"
  /\ ~(i + 1 < ExtraRounds)
  /\ prices' = Append(prices, Observation(roundId, roundData, feed.decimals))
  /\ i' = i + 1
  /\ roundsFile' = [exists |-> TRUE, data |-> JsonPrices(prices')]
  /\ subgraph' \in SwapSetsFor(feed)
  /\ allSwaps' = <<>>
  /\ lastId' = 0
  /\ pages' = 1
  /\ pc' = "post"
  /\ UNCHANGED <<feed, output, run, now, daysAgo, roundId, roundData, site,
                 attempt, resultData, errorMsg, requested, tries, waits, fault, response, armed>>

\* A page of PageSize swaps: the cursor moves and the next page is requested.
PageMore ==
  /\ pc = "post"
  /\ \E resp \in Responses(subgraph, daysAgo, lastId) :
       /\ ~PoolMissing(resp)
       /\ ~LastPage(resp.swaps)
       /\ response' = resp
       /\ allSwaps' = allSwaps \o resp.swaps
       /\ lastId' = NextCursor(resp.swaps)
  /\ pages' = pages + 1
  /\ UNCHANGED <<feed, subgraph, roundsFile, output, pc, run, now, daysAgo,
                 prices, roundId, roundData, i, site, attempt, resultData,
                 errorMsg, requested, tries, waits, fault, armed>>

\* A shorter page: fetchSwaps returns and main() runs to its end.
PageLast ==
  /\ pc = "post"
  /\ \E resp \in Responses(subgraph, daysAgo, lastId) :
       /\ ~PoolMissing(resp)
       /\ LastPage(resp.swaps)
       /\ response' = resp
       /\ allSwaps' = allSwaps \o resp.swaps
       /\ Finish(allSwaps \o resp.swaps)
  /\ UNCHANGED <<feed, subgraph, roundsFile, run, now, daysAgo, prices, roundId,
                 roundData, i, site, attempt, lastId, errorMsg, requested,
                 tries, waits, fault, pages, armed>>

\* The response has no pool.
PageNoPool ==
  /\ pc = "post"
  /\ \E resp \in Responses(subgraph, daysAgo, lastId) :
       /\ PoolMissing(resp)
       /\ response' = resp
  /\ Abort("Pool not found")
  /\ UNCHANGED <<feed, subgraph, roundsFile, output, run, now, daysAgo, prices,
                 roundId, roundData, i, site, attempt, allSwaps, lastId,
                 resultData, requested, tries, waits, fault, pages, armed>>

\* axios.post rejects.
PageFail ==
  /\ pc = "post"
  /\ Abort("Network Error")
  /\ UNCHANGED <<feed, subgraph, roundsFile, output, run, now, daysAgo, prices,
                 roundId, roundData, i, site, attempt, allSwaps, lastId,
                 resultData, requested, tries, waits, fault, pages, response, armed>>

Next ==
  \/ Begin
  \/ LatestRoundOk
  \/ LatestRoundFail
  \/ RoundOkWalkPush
  \/ RoundOkWalkSkip
  \/ RoundOkWalkExit
  \/ RoundOkExtra
  \/ RoundFailRetry
  \/ RoundFailThrow
  \/ RetryDelay
  \/ DecimalsOkWalk
  \/ DecimalsOkExtra
  \/ DecimalsOkLast
  \/ DecimalsFail
  \/ PageMore
  \/ PageLast
  \/ PageNoPool
  \/ PageFail

Spec == Init /\ [][Next]_vars

(***************************************************************************)
(* The run with the timers that outlive their race.                        *)
(***************************************************************************)
\* The rejection of a timer that fires late fails the attempt in progress.
TimeoutLateCounts ==
  /\ armed
  /\ armed' = FALSE
  /\ IF pc = "getRoundData"
     THEN pc' = "retryDelay" /\ fault' = "Timeout"
     ELSE UNCHANGED <<pc, fault>>
  /\ UNCHANGED <<feed, subgraph, roundsFile, output, run, now, daysAgo, prices,
                 roundId, roundData, i, site, attempt, allSwaps, lastId,
                 resultData, errorMsg, requested, tries, waits, pages, response>>

\* A timer fires after the fetch has settled its race: the rejection of a
\* promise whose race is over, which nothing observes.
TimeoutLate ==
  /\ armed
  /\ armed' = FALSE
  /\ UNCHANGED <<feed, subgraph, roundsFile, output, pc, run, now, daysAgo,
                 prices, roundId, roundData, i, site, attempt, allSwaps, lastId,
                 resultData, errorMsg, requested, tries, waits, fault, pages,
                 response>>

NextRace == Next \/ TimeoutLate

SpecRace == Init /\ [][NextRace]_vars

(***************************************************************************)
(* Properties.                                                             *)
(***************************************************************************)
TsOf(p) == ParseInt(p.timestamp)

\* The first second of the window the subgraph is asked for.
StartSec == daysAgo \div 1000

\* C1: every swap main() has processed carries the observation of prices
\* whose timestamp is the greatest one not above the swap's timestamp, and
\* "N/A" when prices holds no observation at or before the swap.
C1_MatchIsLatestAtOrBefore ==
  pc = "done" =>
    /\ Len(resultData.swaps) = Len(allSwaps)
    /\ \A k \in 1..Len(allSwaps) :
         LET T == allSwaps[k].timestamp
             d == resultData.swaps[k]
             Q == { j \in 1..Len(prices) : TsOf(prices[j]) <= T }
         IN  IF Q = {}
             THEN d.chainlinkPrice = NA /\ d.chainlinkTimestamp = NA
             ELSE \E j \in Q :
                    /\ d.chainlinkTimestamp = IntNum(1000 * TsOf(prices[j]))
                    /\ d.chainlinkPrice = prices[j].price
                    /\ \A m \in 1..Len(prices) :
                         ~(TsOf(prices[j]) < TsOf(prices[m]) /\ TsOf(prices[m]) <= T)

\* C1 witness: a processed swap with an older and a newer observation around
\* the one it is matched to, and an observation after the swap.
C1_Witness ==
  /\ pc = "done"
  /\ \E k \in 1..Len(allSwaps) : \E a, b, c \in 1..Len(prices) :
       /\ TsOf(prices[a]) < TsOf(prices[b])
       /\ TsOf(prices[b]) <= allSwaps[k].timestamp
       /\ allSwaps[k].timestamp < TsOf(prices[c])
       /\ resultData.swaps[k].chainlinkTimestamp = IntNum(1000 * TsOf(prices[b]))

\* C2: what fetchSwaps returns holds every swap of the subgraph whose
\* timestamp is at or after the start exactly once; stated for the subgraphs
\* in which no two swaps share a timestamp, where the order of a page is
\* fixed by the query.
C2_NoGapNoDuplicate ==
  (pc = "done" /\ DistinctTimestamps(subgraph)) =>
    \A s \in subgraph :
      s.timestamp >= StartSec =>
        Cardinality({ k \in 1..Len(allSwaps) : allSwaps[k].id = s.id }) = 1

\* C3: one fetchRoundDataWithRetry makes at most MAX_RETRIES attempts, sleeps
\* once between a failed attempt and the next, returns the data of the round
\* on the first attempt that succeeds and throws the error of the last
\* attempt exactly when the MAX_RETRIES-th attempt fails.
C3_BoundedRetry ==
  [][ /\ pc = "getRoundData" =>
           /\ attempt \in 1..MAX_RETRIES
           /\ tries = attempt
           /\ waits = attempt - 1
      /\ (pc = "getRoundData" /\ pc' = "retryDelay") =>
           /\ attempt < MAX_RETRIES
           /\ fault' \in AttemptErrors(roundId)
           /\ tries' = tries /\ waits' = waits
      /\ pc = "retryDelay" =>
           /\ pc' = "getRoundData"
           /\ roundId' = roundId
           /\ tries' = tries + 1
           /\ waits' = waits + 1
      /\ (pc = "getRoundData" /\ pc' = "aborted") =>
           /\ tries = MAX_RETRIES
           /\ waits = MAX_RETRIES - 1
           /\ fault' \in AttemptErrors(roundId)
           /\ errorMsg' = fault'
      /\ (pc = "getRoundData" /\ fault' # "none" /\ attempt = MAX_RETRIES) =>
           pc' = "aborted"
      /\ (pc = "getRoundData" /\ fault' = "none") =>
           /\ roundId >= 0
           /\ roundData' = RoundDataOf(roundId)
           /\ \/ pc' = "decimals" /\ tries' = 0 /\ waits' = 0
              \/ pc' = "getRoundData" /\ roundId' = roundId - 1 /\ tries' = 1
                 /\ waits' = 0
    ]_vars

\* C3 witness: the fifth attempt has failed after four delays and its error
\* is the one main() logs.
C3_Witness ==
  /\ pc = "aborted"
  /\ tries = MAX_RETRIES
  /\ waits = MAX_RETRIES - 1
  /\ fault = "Timeout"
  /\ errorMsg = "Timeout"

\* C4: an error ends the run: main() is in its catch clause as soon as a
\* round has used up its attempts or a page request has failed, the step
\* that fails issues no request and writes no file, nothing has been
\* processed or reported, and all that follows is another run of main().
C4_AbortIsFinal ==
  [][ /\ (pc = "getRoundData" /\ attempt = MAX_RETRIES /\ fault' # "none") =>
           pc' = "aborted"
      /\ errorMsg' # "" => pc' = "aborted"
      /\ (pc' = "aborted" /\ pc # "aborted") =>
           /\ requested' = requested
           /\ pages' = pages
           /\ roundsFile' = roundsFile
           /\ ~output'.written
           /\ resultData' = EmptyResult
      /\ pc = "aborted" =>
           /\ ~output.written
           /\ resultData = EmptyResult
           /\ run' = run + 1
           /\ pc' = "latestRound"
    ]_vars

\* C4 witness: a page request has failed after a page of swaps had come.
C4_Witness ==
  /\ pc = "aborted"
  /\ errorMsg = "Network Error"
  /\ pages = 2
  /\ Len(allSwaps) = PageSize
  /\ ~output.written

\* C5: after a build that succeeded, neither prices nor rounds.json holds
\* two observations of one round.
C5_NoDuplicateRounds ==
  pc \in {"post", "done"} =>
    /\ \A a, b \in 1..Len(prices) : a < b => prices[a].roundId # prices[b].roundId
    /\ \A a, b \in 1..Len(roundsFile.data) :
         a < b => roundsFile.data[a].roundId # roundsFile.data[b].roundId

\* C6: no round identifier below zero is passed to getRoundData.
C6_NoNegativeRound == \A r \in requested : r >= 0

\* C7: the build is never ended by anything but a failure of the feed: a
\* round of the feed that has used up its attempts, latestRound() or
\* decimals().
C7_BuildCompletes ==
  (pc = "aborted" /\ pages = 0) =>
    errorMsg \in RoundErrors \cup {"latestRound failed", "decimals failed"}

\* C8: after a build that succeeded against a feed whose timestamps never
\* decrease with the round, every swap at or after the start is matched to
\* an observation.
C8_EverySwapMatched ==
  (pc = "done" /\ NonDecreasing(feed.ts, feed.latest)) =>
    \A k \in 1..Len(allSwaps) :
      allSwaps[k].timestamp >= StartSec =>
        resultData.swaps[k].chainlinkPrice # NA

\* C8 witness: a swap in the first second of the window, matched to an
\* extra round while the walk had kept a round after the swap.
C8_Witness ==
  /\ pc = "done"
  /\ NonDecreasing(feed.ts, feed.latest)
  /\ \E k \in 1..Len(allSwaps) :
       /\ allSwaps[k].timestamp = StartSec
       /\ resultData.swaps[k].chainlinkPrice # NA
       /\ resultData.swaps[k].timeDifference # IntNum(0)
  /\ \E a \in 1..Len(prices) : TsOf(prices[a]) * 1000 > daysAgo

\* C9: a record whose chainlinkPrice is "N/A" or zero carries the marker
\* "N/A" in priceDifferencePercent and leveryEfficiencyPercent.
C9_UnavailableMarked ==
  pc = "done" =>
    \A k \in 1..Len(resultData.swaps) :
      LET d == resultData.swaps[k]
      IN  (d.chainlinkPrice = NA \/ d.chainlinkPrice = IntNum(0)) =>
            /\ d.priceDifferencePercent = NA
            /\ d.leveryEfficiencyPercent = NA

\* C10: with no swap in the window averageLeveryEfficiencyPercent is zero or
\* the marker "N/A".
C10_EmptyAverage ==
  (pc = "done" /\ Len(allSwaps) = 0) =>
    resultData.averageLeveryEfficiencyPercent \in {IntNum(0), NA}

\* Math.max(Math.abs(amount0), Math.abs(amount1)) of a record.
SwapAmountOf(d) ==
  IF JGt(JAbs(d.amount0), JAbs(d.amount1)) THEN JAbs(d.amount0) ELSE JAbs(d.amount1)

\* C11: in every record whose oracle price is "N/A" or positive the dynamic
\* fee percent is at least the base 0.05, the standard fee is 0.05 percent
\* of the swap amount, and the dynamic fee percent is the base when the
\* swap's price is the oracle price; so for the fee of part_000 the record
\* carries and for the fee app.js computes from the same price pair.
C11_FeeFloor ==
  pc = "done" =>
    \A k \in 1..Len(resultData.swaps) :
      LET d == resultData.swaps[k]
          app == AppDynamicLeveryFeePercent(d.price, d.chainlinkPrice, d.isBuyingETH)
      IN  (d.chainlinkPrice = NA \/ JGt(d.chainlinkPrice, IntNum(0))) =>
            /\ IsFinite(d.dynamicLeveryFeePercent)
            /\ ~JLt(d.dynamicLeveryFeePercent, BaseFeePercent)
            /\ IsFinite(app)
            /\ ~JLt(app, BaseFeePercent)
            /\ d.standardFee = JDiv(JMul(SwapAmountOf(d), Num(5, 100)), IntNum(100))
            /\ d.price = d.chainlinkPrice =>
                  /\ d.dynamicLeveryFeePercent = BaseFeePercent
                  /\ app = BaseFeePercent
            /\ d.chainlinkPrice = NA =>
                  /\ d.dynamicLeveryFeePercent = BaseFeePercent
                  /\ app = BaseFeePercent

\* C11 witness: one report with a swap at the oracle price, charged the
\* base, and a swap below the oracle price, charged more by both formulas.
C11_Witness ==
  /\ pc = "done"
  /\ \E a, b \in 1..Len(resultData.swaps) :
       LET x == resultData.swaps[a]
           y == resultData.swaps[b]
       IN  /\ x.chainlinkPrice # NA /\ x.price = x.chainlinkPrice
           /\ x.dynamicLeveryFeePercent = BaseFeePercent
           /\ y.chainlinkPrice # NA /\ JLt(y.price, y.chainlinkPrice)
           /\ JGt(y.dynamicLeveryFeePercent, BaseFeePercent)
           /\ JGt(AppDynamicLeveryFeePercent(y.price, y.chainlinkPrice, y.isBuyingETH),
                  BaseFeePercent)

\* total += field, over a list of numbers from its first to its last.
RECURSIVE SumOf(_)
SumOf(xs) ==
  IF Len(xs) = 0 THEN IntNum(0)
  ELSE JAdd(SumOf(SubSeq(xs, 1, Len(xs) - 1)), xs[Len(xs)])

\* C12: in every report totalSwaps is the number of swaps fetchSwaps
\* returned and the length of the swaps list, the two fee totals are the
\* sums of the records' standardFee and dynamicLeveryFee, and with at least
\* one swap averageLeveryEfficiencyPercent is the sum of the records'
\* leveryEfficiencyPercent divided by totalSwaps (NaN as soon as one record
\* carries NaN); the file holds these values as JSON.stringify writes them.
C12_TotalsAreSums ==
  output.written =>
    LET ds == resultData.swaps
        n == Len(ds)
    IN  /\ resultData.totalSwaps = Len(allSwaps)
        /\ resultData.totalSwaps = n
        /\ resultData.totalStandardFee = SumOf([k \in 1..n |-> ds[k].standardFee])
        /\ resultData.totalDynamicLeveryFee =
             SumOf([k \in 1..n |-> ds[k].dynamicLeveryFee])
        /\ n > 0 =>
             resultData.averageLeveryEfficiencyPercent =
               JDiv(SumOf([k \in 1..n |-> ds[k].leveryEfficiencyPercent]), IntNum(n))
        /\ output.data.totalSwaps = n
        /\ Len(output.data.swaps) = n
        /\ output.data.totalStandardFee = JsonValue(resultData.totalStandardFee)
        /\ output.data.totalDynamicLeveryFee =
             JsonValue(resultData.totalDynamicLeveryFee)
        /\ output.data.averageLeveryEfficiencyPercent =
             JsonValue(resultData.averageLeveryEfficiencyPercent)

\* C12 witness: a report of two swaps with different efficiencies, both
\* finite, whose average is finite and is neither of the two.
C12_Witness ==
  /\ output.written
  /\ resultData.totalSwaps = 2
  /\ IsFinite(resultData.swaps[1].leveryEfficiencyPercent)
  /\ IsFinite(resultData.swaps[2].leveryEfficiencyPercent)
  /\ resultData.swaps[1].leveryEfficiencyPercent #
       resultData.swaps[2].leveryEfficiencyPercent
  /\ IsFinite(resultData.averageLeveryEfficiencyPercent)
  /\ output.data.averageLeveryEfficiencyPercent =
       resultData.averageLeveryEfficiencyPercent

\* The rounds of the feed whose timestamp is within [startTime, endTime].
InClosedWindow ==
  { r \in 0..feed.latest : feed.ts[r] * 1000 >= daysAgo /\ feed.ts[r] * 1000 <= now }

\* C13: a first run, which has no rounds.json to load, against a feed whose
\* timestamps never decrease with the round: the build that succeeds
\* returns as many observations as the feed has rounds within
\* [startTime, endTime] plus the five extra ones, and holds every round
\* within [startTime, endTime].
C13_WindowPlusMargin ==
  (pc \in {"post", "done"} /\ run = 1 /\ NonDecreasing(feed.ts, feed.latest)) =>
    /\ Len(prices) = Cardinality(InClosedWindow) + ExtraRounds
    /\ \A r \in InClosedWindow : Cached(prices, r)

\* How many times fetchSwaps has sent the request it is waiting for, or the
\* one that ended it: the requests sent less the full pages that have come.
PageAttempts == pages - Len(allSwaps) \div PageSize

\* C14: main() is in its catch clause because of a page request only after
\* that request has been sent MAX_RETRIES times.
C14_PageRequestRetried ==
  (pc = "aborted" /\ errorMsg = "Network Error") => PageAttempts = MAX_RETRIES

\* C15: a response without a pool puts main() in its catch clause with
\* "Pool not found" in that very step, with no request sent and nothing
\* added to the swaps or written; a response with a pool raises no error,
\* and when its page is empty fetchSwaps returns the swaps it had and the
\* report is made of them.
C15_NoPoolFailsEmptyPageEnds ==
  [][ (pc = "post" /\ errorMsg' # "Network Error") =>
        /\ response'.got
        /\ ~response'.pool =>
             /\ pc' = "aborted"
             /\ errorMsg' = "Pool not found"
             /\ pages' = pages
             /\ allSwaps' = allSwaps
             /\ ~output'.written
        /\ response'.pool => errorMsg' = ""
        /\ (response'.pool /\ Len(response'.swaps) = 0) =>
             /\ pc' = "done"
             /\ pages' = pages
             /\ allSwaps' = allSwaps
             /\ output'.written
             /\ resultData'.totalSwaps = Len(allSwaps)
    ]_vars

\* C15 witness: the second response has no pool, after a full page of swaps.
C15_Witness ==
  /\ pc = "aborted"
  /\ errorMsg = "Pool not found"
  /\ response.got /\ ~response.pool
  /\ pages = 2
  /\ Len(allSwaps) = PageSize

\* C16: an attempt the timer settles is a failed attempt with the
\* consequences of one the fetch rejects: the delay and the same round again
\* while attempts are left, the throw of its error on the last one; an
\* attempt the fetch resolves returns the data of the round and leaves its
\* timer armed; and that timer firing later changes nothing of the run.
C16_TimeoutIsFailure ==
  [][ /\ \A e \in RoundErrors :
           (pc = "getRoundData" /\ fault' = e) =>
             /\ roundId' = roundId /\ roundData' = roundData /\ prices' = prices
             /\ attempt' = attempt
             /\ IF attempt < MAX_RETRIES
                THEN pc' = "retryDelay" /\ errorMsg' = ""
                ELSE pc' = "aborted" /\ errorMsg' = e
      /\ (pc = "getRoundData" /\ fault' = "Timeout") => armed' = armed
      /\ (pc = "getRoundData" /\ fault' = "none" /\ armed') =>
           /\ roundData' = RoundDataOf(roundId)
           /\ pc' \in {"decimals", "getRoundData"}
           /\ errorMsg' = ""
      /\ (armed /\ ~armed' /\ run' = run) =>
           UNCHANGED <<feed, subgraph, roundsFile, output, pc, run, now, daysAgo,
                       prices, roundId, roundData, i, site, attempt, allSwaps,
                       lastId, resultData, errorMsg, requested, tries, waits,
                       fault, pages, response>>
    ]_vars

\* C16 witness: a round has been fetched and pushed, the timer of that
\* attempt has fired since, and the timer has settled the first attempt for
\* a later round, which is now in its delay.
C16_Witness ==
  /\ pc = "retryDelay"
  /\ attempt = 1
  /\ fault = "Timeout"
  /\ ~armed
  /\ Len(prices) > 0
  /\ run = 1

\* The build is under way: rounds.json is still what the run has loaded.
Building == pc \in {"latestRound", "getRoundData", "retryDelay", "decimals"}

\* C17: a run that has loaded rounds.json passes to getRoundData no round
\* identifier that rounds.json holds.
C17_CachedNotFetched ==
  (Building /\ roundsFile.exists) =>
    \A r \in requested : r >= 0 => ~Cached(roundsFile.data, r)

\* C18: rounds.json changes only in the step that ends a build with
\* success, and every such step writes it; what is written starts with what
\* the file held, observation by observation, and is what prices then
\* holds; while the build is under way prices starts with what was loaded;
\* and the step into the catch clause of main() leaves the file as it was.
C18_CacheGrowsOnSuccess ==
  [][ /\ roundsFile' # roundsFile => (pc = "decimals" /\ pc' = "post")
      /\ (pc = "decimals" /\ pc' = "post") =>
           /\ roundsFile'.exists
           /\ roundsFile'.data = JsonPrices(prices')
           /\ Len(roundsFile'.data) >= Len(roundsFile.data)
           /\ \A j \in 1..Len(roundsFile.data) :
                roundsFile'.data[j] = roundsFile.data[j]
      /\ Building =>
           /\ Len(prices) >= Len(roundsFile.data)
           /\ \A j \in 1..Len(roundsFile.data) : prices[j] = roundsFile.data[j]
      /\ pc' = "aborted" => roundsFile' = roundsFile
    ]_vars

\* C18 witness: the second run has loaded rounds.json, has pushed a round
\* published since the first run, and has written the file again.
C18_Witness ==
  /\ run = 2
  /\ pc = "post"
  /\ roundsFile.exists
  /\ Len(roundsFile.data) > 2 * ExtraRounds
  /\ roundsFile.data[ExtraRounds + 1].roundId = ToStr(feed.latest)

\* C19: what a build that succeeded returns is in the strictly descending
\* order of the round identifiers.
C19_DescendingRounds ==
  pc \in {"post", "done"} =>
    \A a, b \in 1..Len(prices) :
      a < b => ParseInt(prices[a].roundId) > ParseInt(prices[b].roundId)

\* Each round of the feed is later than the round before it.
StrictlyIncreasing(f, L) == \A r \in 1..L : f[r - 1] < f[r]

\* C20: against a feed whose timestamps strictly increase with the round,
\* every swap within [startTime, endTime] is matched to the latest round of
\* the feed at or before the swap.
C20_MatchIsFeedsLatest ==
  (pc = "done" /\ StrictlyIncreasing(feed.ts, feed.latest)) =>
    \A k \in 1..Len(allSwaps) :
      LET T == allSwaps[k].timestamp
          R == { r \in 0..feed.latest : feed.ts[r] <= T }
      IN  (T * 1000 >= daysAgo /\ T * 1000 <= now /\ R # {}) =>
            \E r \in R :
              /\ \A q \in R : q <= r
              /\ resultData.swaps[k].chainlinkTimestamp = IntNum(1000 * feed.ts[r])

\* The swaps of the window: what the first request is asked for.
InWindow == Eligible(subgraph, daysAgo, 0)

\* C21: fetchSwaps ends when every request is answered: a page shorter than
\* the page size ends the loop, a full page makes its last identifier the
\* cursor, which is then above the cursor before, no more requests are sent
\* than the subgraph has swaps plus one, and when the window holds a
\* multiple of the page size the page that ends the loop is empty; the last
\* part stated for the subgraphs in which no two swaps share a timestamp.
C21_PaginationEnds ==
  [][ (pc = "post" /\ errorMsg' = "" /\ response'.pool) =>
        /\ Len(response'.swaps) < PageSize => pc' = "done"
        /\ Len(response'.swaps) = PageSize =>
             /\ pc' = "post"
             /\ lastId' = response'.swaps[PageSize].id
             /\ lastId' > lastId
             /\ pages' = pages + 1
        /\ pages' <= Cardinality(subgraph) + 1
        /\ ( /\ pc' = "done"
             /\ DistinctTimestamps(subgraph)
             /\ Cardinality(InWindow) > 0
             /\ Cardinality(InWindow) % PageSize = 0 ) =>
             Len(response'.swaps) = 0
    ]_vars

\* C22: every record has exactly one of isBuyingETH and isSellingETH, the
\* first when and only when amount0 of the swap is below zero; a buy stores
\* leveryHookPricePlusFee alone, the price plus its dynamic fee share, and
\* its efficiency is taken from that price; a sell stores
\* leveryHookPriceMinusFee alone, the price minus the share, and its
\* efficiency is taken from that price.
C22_DirectionAndHookPrice ==
  pc = "done" =>
    \A k \in 1..Len(resultData.swaps) :
      LET d == resultData.swaps[k]
          share == JDiv(JMul(d.price, d.dynamicLeveryFeePercent), IntNum(100))
          plus == JAdd(d.price, share)
          minus == JSub(d.price, share)
          cp == d.chainlinkPrice
      IN  /\ d.isBuyingETH # d.isSellingETH
          /\ d.isBuyingETH <=> allSwaps[k].amount0 < 0
          /\ d.isBuyingETH =>
                /\ d.leveryHookPricePlusFee = plus
                /\ d.leveryHookPriceMinusFee = Undefined
                /\ d.leveryEfficiencyPercent =
                     JMul(JDiv(JSub(cp, plus), cp), IntNum(100))
          /\ d.isSellingETH =>
                /\ d.leveryHookPriceMinusFee = minus
                /\ d.leveryHookPricePlusFee = Undefined
                /\ d.leveryEfficiencyPercent =
                     JMul(JDiv(JSub(minus, cp), cp), IntNum(100))

\* C22 witness: one report with a buy whose stored hook price is above its
\* price and a sell whose stored hook price is below its price, both with a
\* finite efficiency.
C22_Witness ==
  /\ pc = "done"
  /\ \E a, b \in 1..Len(resultData.swaps) :
       LET x == resultData.swaps[a]
           y == resultData.swaps[b]
       IN  /\ x.isBuyingETH /\ ~x.isSellingETH
           /\ IsFinite(x.leveryHookPricePlusFee)
           /\ JGt(x.leveryHookPricePlusFee, x.price)
           /\ IsFinite(x.leveryEfficiencyPercent)
           /\ y.isSellingETH /\ ~y.isBuyingETH
           /\ IsFinite(y.leveryHookPriceMinusFee)
           /\ JLt(y.leveryHookPriceMinusFee, y.price)
           /\ IsFinite(y.leveryEfficiencyPercent)

====
